---------------------------- MODULE Spec2Model ----------------------------
(***************************************************************************)
(* Cavity dynamics of GPUMD (src/src/cavity/cavity.cu): the Cavity class,  *)
(* its hooks as the outer simulation calls them, and the reduction kernel  *)
(* sum_dipole at lane level.                                               *)
(*                                                                         *)
(* A double is modelled as a fraction <<n, d>> in lowest terms with        *)
(* d >= 0.  d = 0 carries the IEEE specials: <<1,0>> is +inf, <<-1,0>> is  *)
(* -inf and <<0,0>> is NaN.  Rounding is not modelled.                     *)
(***************************************************************************)
EXTENDS Integers, Sequences, FiniteSets, Bags, TLC

(***************************************************************************)
(* Bounds of the model.                                                    *)
(***************************************************************************)
MaxAtoms == 2      \* number_of_atoms ranges over 0..MaxAtoms
MaxSteps == 2      \* MD steps the outer simulation takes over all runs
MaxRuns == 2       \* run commands the outer simulation executes
MaxKernelN == 9    \* N of the lane-level run of sum_dipole ranges over 1..MaxKernelN

(***************************************************************************)
(* double arithmetic                                                       *)
(***************************************************************************)
Abs(x) == IF x < 0 THEN -x ELSE x

RECURSIVE GCD(_, _)
GCD(a, b) == IF b = 0 THEN a ELSE GCD(b, a % b)

\* the double n/d, in lowest terms
Norm(n, d) ==
  LET s == IF d < 0 THEN -1 ELSE 1
      g == GCD(Abs(n), Abs(d))
  IN  IF g = 0 THEN <<0, 0>> ELSE <<(s * n) \div g, (s * d) \div g>>

R(n) == <<n, 1>>
NaN == <<0, 0>>
IsFinite(a) == a[2] # 0
IsNaN(a) == a = NaN

RAdd(a, b) ==
  IF a[2] = 0 /\ b[2] = 0
    THEN (IF a = b THEN a ELSE NaN)
    ELSE Norm(a[1] * b[2] + b[1] * a[2], a[2] * b[2])
RNeg(a) == <<-a[1], a[2]>>
RSub(a, b) == RAdd(a, RNeg(b))
RMul(a, b) == Norm(a[1] * b[1], a[2] * b[2])
RDiv(a, b) ==
  IF b[2] = 0 /\ a[2] = 0 THEN NaN
  ELSE Norm(a[1] * b[2], a[2] * b[1])
\* a < b and a <= b; false when either side is NaN
RLess(a, b) ==
  /\ ~IsNaN(a) /\ ~IsNaN(b) /\ a # b
  /\ IF a[2] = 0 THEN a[1] < 0
     ELSE IF b[2] = 0 THEN b[1] > 0
     ELSE a[1] * b[2] < b[1] * a[2]
RLeq(a, b) == ~IsNaN(a) /\ ~IsNaN(b) /\ (a = b \/ RLess(a, b))

\* cos and sin, by their Taylor polynomials of order two
Cos(x) == RSub(R(1), RMul(<<1, 2>>, RMul(x, x)))
Sin(x) == x

RECURSIVE RSum(_, _, _)
\* f[lo] + ... + f[hi], left to right, 0.0 when the range is empty
RSum(f, lo, hi) == IF hi < lo THEN R(0) ELSE RAdd(RSum(f, lo, hi - 1), f[hi])

\* arrays are functions on 0..n-1, indexed as in the source
Zeros(n) == [l \in 0..(n - 1) |-> R(0)]

\* integer division of C: truncation toward zero
CDiv(a, b) == IF a >= 0 THEN a \div b ELSE -((-a) \div b)

\* std::vector<double>::resize(n): the first n values kept, new ones 0.0
Resize(v, n) == [l \in 0..(n - 1) |-> IF l \in DOMAIN v THEN v[l] ELSE R(0)]

(***************************************************************************)
(* Program constants                                                       *)
(***************************************************************************)
\* 0.529177249, carried to one digit
BOHR_IN_ANGSTROM == <<1, 2>>
\* 1.018051e+1 (utilities/common.cuh), carried to one digit
TIME_UNIT_CONVERSION == R(10)
\* the displacement compute_dipole_and_jacobian passes to get_dipole_jacobian
Displacement == <<1, 1000>>

\* threads per block of the two reduction kernels: 1024 in the source, with
\* warps of 32; the model runs the same code on 8 lanes in warps of 2
number_of_threads == 8
WarpSize == 2

(***************************************************************************)
(* The dipole model behind NEP3Cavity (an external collaborator): a model  *)
(* that is linear in the positions, mu_k = sum_j A[k][j] * r_j summed over *)
(* the atoms.  compute leaves atom a's contribution to component k in      *)
(* virial_per_atom[k * N + a].                                             *)
(***************************************************************************)
A == <<<<2, 0, 0>>, <<0, 1, 0>>, <<1, 0, 2>>>>

AtomDipole(position, N, a, k) ==
  RAdd(RAdd(RMul(R(A[k + 1][1]), position[0 * N + a]),
            RMul(R(A[k + 1][2]), position[1 * N + a])),
       RMul(R(A[k + 1][3]), position[2 * N + a]))

\* NEP3Cavity::compute on the zeroed buffers of an N-atom snapshot
PotentialCompute(position, N) ==
  [l \in 0..(9 * N - 1) |->
     IF l < 3 * N THEN AtomDipole(position, N, l % N, l \div N) ELSE R(0)]

(***************************************************************************)
(* State                                                                   *)
(***************************************************************************)
VARIABLES
  \* the outer simulation
  pc,              \* the hook the outer simulation calls next
  status,          \* "running", or "aborted" after PRINT_INPUT_ERROR
  run,             \* run commands started
  step,            \* step index of the current run
  total_steps,     \* MD steps taken over all runs
  global_time,     \* the outer clock, in natural units
  atom,            \* Atom: number_of_atoms, mass, type, position_per_atom, force_per_atom
  potentials,      \* force.potentials: the nep_model_type of each potential
  garbage,         \* what a never-written double or int holds
  \* Cavity
  enabled_, number_of_atoms_, number_of_copied_systems_,
  number_of_atoms_in_copied_system_,
  coupling_strength, cavity_frequency, charge,
  mass_, masses_,
  cpu_dipole_, cpu_dipole_jacobian_, cpu_cavity_force_,
  q0, q, p, cavity_pot, cavity_kin,
  cos_integral, sin_integral, prevtime, prevdipole,
  atom_copy,       \* type, mass, position_per_atom, virial_per_atom
  atom_cavity,     \* type, mass, position_per_atom, system_index
  jacfile_, cavfile_,      \* FILE*: "null", "open" or "closed"
  jacobian_out, cavity_out,\* the two files: rows on disk, rows still buffered
  param,           \* the cavity keyword line of run.in, which parse is given
  history,         \* this run so far: whether parse was called, dipole evaluations,
                   \* oscillator steps, the rows the files had at its start, and
                   \* the (time, dipole) samples the oscillator was given
  \* one block of sum_dipole, lane by lane
  kN, bid, lane_pc, lane_d, lane_round, s_d, g_dipole, reads, writes

outerVars == <<pc, status, run, step, total_steps, global_time, atom, potentials, garbage>>
paramVars == <<enabled_, number_of_atoms_, number_of_copied_systems_,
               number_of_atoms_in_copied_system_, coupling_strength,
               cavity_frequency, charge>>
massVars == <<mass_, masses_>>
dipoleVars == <<cpu_dipole_, cpu_dipole_jacobian_>>
oscVars == <<q0, q, p, cavity_pot, cavity_kin, cos_integral, sin_integral,
             prevtime, prevdipole>>
snapVars == <<atom_copy, atom_cavity>>
fileVars == <<jacfile_, cavfile_, jacobian_out, cavity_out>>
cavityVars == <<paramVars, massVars, dipoleVars, cpu_cavity_force_, oscVars,
                snapVars, fileVars, param, history>>
kernelVars == <<kN, bid, lane_pc, lane_d, lane_round, s_d, g_dipole, reads, writes>>
vars == <<outerVars, cavityVars, kernelVars>>

(***************************************************************************)
(* The two reduction kernels, as the values they compute                   *)
(***************************************************************************)
\* the patch count rounded down instead of up
number_of_atoms_per_thread_floor(N) == CDiv(N, number_of_threads)

\* lines 499-500: patches of number_of_threads atoms needed to cover N atoms
number_of_atoms_per_thread(N) == CDiv(N - 1, number_of_threads) + 1

RECURSIVE LaneSum(_, _, _, _)
\* the strided partial sum of lane tid over patches 0..patch-1
LaneSum(N, patch, term, tid) ==
  IF patch = 0 THEN R(0)
  ELSE LET atomIdx == tid + (patch - 1) * number_of_threads
           d == LaneSum(N, patch - 1, term, tid)
       IN  IF atomIdx < N THEN RAdd(d, term[atomIdx]) ELSE d

RECURSIVE TreeReduce(_, _)
\* the rounds offset, offset/2, ..., 1 of s_d[tid] += s_d[tid + offset]
TreeReduce(s, offset) ==
  IF offset = 0 THEN s
  ELSE TreeReduce([tid \in DOMAIN s |->
                     IF tid < offset THEN RAdd(s[tid], s[tid + offset]) ELSE s[tid]],
                  offset \div 2)

BlockReduce(N, number_of_patches, term) ==
  TreeReduce([tid \in 0..(number_of_threads - 1) |->
                LaneSum(N, number_of_patches, term, tid)],
             number_of_threads \div 2)[0]

sum_dipole(N, number_of_patches, g_virial_per_atom) ==
  [b \in 0..2 |->
     BlockReduce(N, number_of_patches,
                 [atomIdx \in 0..(N - 1) |-> g_virial_per_atom[b * N + atomIdx]])]

get_center_of_mass(N, number_of_patches, total_mass, g_mass_per_atom, g_position_per_atom) ==
  [b \in 0..2 |->
     RDiv(BlockReduce(N, number_of_patches,
                      [atomIdx \in 0..(N - 1) |->
                         RMul(g_mass_per_atom[atomIdx],
                              g_position_per_atom[b * N + atomIdx])]),
          total_mass)]

\* the kernel copy_positions
copy_positions(N, ref_g_p, g_p) ==
  [l \in DOMAIN g_p |-> IF l < 3 * N THEN ref_g_p[l] ELSE g_p[l]]

\* the kernel copy_mass_and_type_to_cavity, on one of the two arrays
copy_to_cavity(N, ref_g, g) ==
  [l \in DOMAIN g |-> IF l < 12 * N THEN ref_g[l % N] ELSE g[l]]

\* apply_cavity_force with = in place of +=
apply_cavity_force_overwriting(N, g_force, g_cav_force) ==
  [l \in DOMAIN g_force |-> IF l < 3 * N THEN g_cav_force[l] ELSE g_force[l]]

\* the kernel apply_cavity_force
apply_cavity_force(N, g_force, g_cav_force) ==
  [l \in DOMAIN g_force |-> IF l < 3 * N THEN RAdd(g_force[l], g_cav_force[l]) ELSE g_force[l]]

(***************************************************************************)
(* Cavity::get_dipole and the unit conversion of compute_dipole_and_jacobian *)
(***************************************************************************)
get_dipole(N, position) ==
  sum_dipole(N, number_of_atoms_per_thread(N), PotentialCompute(position, N))

_get_center_of_mass(N, total_mass, mass, position) ==
  get_center_of_mass(N, number_of_atoms_per_thread(N), total_mass, mass, position)

\* cpu_dipole_ after the loop of lines 411-414
ConvertedDipole(gpu_dipole, chg, cpu_center_of_mass) ==
  [i \in 0..2 |->
     RAdd(RMul(gpu_dipole[i], BOHR_IN_ANGSTROM), RMul(chg, cpu_center_of_mass[i]))]

(***************************************************************************)
(* Cavity::get_dipole_jacobian                                             *)
(***************************************************************************)
\* shifts[k]: h, 2h, -h, -2h
shifts(displacement) ==
  [k \in 0..3 |->
     CASE k = 0 -> displacement
       [] k = 1 -> RMul(R(2), displacement)
       [] k = 2 -> RMul(R(-1), displacement)
       [] k = 3 -> RMul(R(-2), displacement)]

RECURSIVE CopyInto(_, _, _, _)
\* for (l = 0; l < n; l++) dst[base + l] = src[l]
CopyInto(dst, base, src, n) ==
  IF n = 0 THEN dst
  ELSE [CopyInto(dst, base, src, n - 1) EXCEPT ![base + n - 1] = src[n - 1]]

\* the fill that stops one slot early: std::fill up to (copy_index+1)*N - 1
FillInto_short(dst, base, value, n) ==
  [l \in DOMAIN dst |-> IF base <= l /\ l < base + n - 1 THEN value ELSE dst[l]]

RECURSIVE FillInto(_, _, _, _)
\* for (l = 0; l < n; l++) dst[base + l] = value
FillInto(dst, base, value, n) ==
  IF n = 0 THEN dst
  ELSE [FillInto(dst, base, value, n - 1) EXCEPT ![base + n - 1] = value]

\* one pass of the body of the loops of step 1, for axis i, atom j, stencil point k
BatchBody(N, ref, displacement, cav, i, j, k) ==
  LET values_per_direction == 4 * N
      displaced_index == N * i + j
      copy_index == values_per_direction * i + j * 4 + k
      copied == CopyInto(cav.position_per_atom, copy_index * N, ref, 3 * N)
      displaced == [copied EXCEPT ![copy_index + displaced_index] =
                      RAdd(@, shifts(displacement)[k])]
      tagged == FillInto(cav.system_index, copy_index * N, copy_index, N)
  IN  [cav EXCEPT !.position_per_atom = displaced, !.system_index = tagged]

RECURSIVE BatchLoop(_, _, _, _, _)
\* the first n passes of the three nested loops of step 1, in loop order
BatchLoop(N, ref, displacement, cav, n) ==
  IF n = 0 THEN cav
  ELSE LET m == n - 1
       IN  BatchBody(N, ref, displacement,
                     BatchLoop(N, ref, displacement, cav, m),
                     m \div (4 * N), (m % (4 * N)) \div 4, m % 4)

\* step 1: the batched snapshot after all 12 * N passes
BuildBatch(N, ref, displacement, cav) == BatchLoop(N, ref, displacement, cav, 12 * N)

\* step 3: the value stored in cpu_dipole_jacobian_[i * 3 + j * 9 + k]
JacobianEntry(i, j, k) == R(1)

\* step 3: cpu_dipole_jacobian_ after the loops over i, j, k
CollectJacobian(N, jac) ==
  [l \in DOMAIN jac |->
     IF l < 9 * N THEN JacobianEntry((l % 9) \div 3, l \div 9, l % 3) ELSE jac[l]]

(***************************************************************************)
(* The oscillator                                                          *)
(***************************************************************************)
canonical_position(time, omega, Icos, Isin, q_0) ==
  LET phase == RMul(omega, time)
  IN  RAdd(RSub(RMul(Sin(phase), Icos), RMul(Cos(phase), Isin)),
           RMul(q_0, Cos(phase)))

canonical_momentum(time, omega, Icos, Isin, q_0) ==
  LET phase == RMul(omega, time)
  IN  RMul(omega,
           RSub(RAdd(RMul(Cos(phase), Icos), RMul(Sin(phase), Isin)),
                RMul(q_0, Sin(phase))))

cavity_potential_energy(omega, lambda, qq, dipole) ==
  LET coup_times_dip == RMul(lambda, dipole[2])
      cav_factor == RSub(RMul(omega, qq), coup_times_dip)
  IN  RMul(RMul(<<1, 2>>, cav_factor), cav_factor)

cavity_kinetic_energy(pp) == RMul(RMul(<<1, 2>>, pp), pp)

\* Cavity::cavity_force: cpu_cavity_force_ for N atoms
cavity_force(N, omega, lambda, qq, dipole, jacobian) ==
  LET cav_factor == RSub(RMul(omega, qq), RMul(lambda, dipole[2]))
      N_components == 3
      values_per_atom == 9
  IN  [l \in 0..(3 * N - 1) |->
         RMul(RMul(cav_factor, lambda),
              jacobian[(l \div N) * N_components + (l % N) * values_per_atom + 2])]

\* step_cavity that recomputes instead of accumulating: the integrals become the
\* increment of this step alone
step_cavity_from_scratch(time, omega, lambda, Icos, Isin, prev_t, prev_dipole, dipole) ==
  LET dt == RSub(time, prev_t)
      prevlmu == RMul(lambda, prev_dipole[2])
      lmu == RMul(lambda, dipole[2])
      half_dt == RMul(<<1, 2>>, dt)
  IN  [cos_integral |-> RAdd(RMul(RMul(half_dt, Cos(RMul(omega, prev_t))), prevlmu),
                             RMul(RMul(half_dt, Cos(RMul(omega, time))), lmu)),
       sin_integral |-> RAdd(RMul(RMul(half_dt, Sin(RMul(omega, prev_t))), prevlmu),
                             RMul(RMul(half_dt, Sin(RMul(omega, time))), lmu))]

\* step_cavity by the rectangle rule: dt times the current sample only
step_cavity_rectangle(time, omega, lambda, Icos, Isin, prev_t, prev_dipole, dipole) ==
  LET dt == RSub(time, prev_t)
      lmu == RMul(lambda, dipole[2])
  IN  [cos_integral |-> RAdd(Icos, RMul(RMul(dt, Cos(RMul(omega, time))), lmu)),
       sin_integral |-> RAdd(Isin, RMul(RMul(dt, Sin(RMul(omega, time))), lmu))]

\* Cavity::step_cavity: the two integrals after the step to `time`
step_cavity(time, omega, lambda, Icos, Isin, prev_t, prev_dipole, dipole) ==
  LET dt == RSub(time, prev_t)
      prevlmu == RMul(lambda, prev_dipole[2])
      lmu == RMul(lambda, dipole[2])
      half_dt == RMul(<<1, 2>>, dt)
      c1 == RAdd(Icos, RMul(RMul(half_dt, Cos(RMul(omega, prev_t))), prevlmu))
      s1 == RAdd(Isin, RMul(RMul(half_dt, Sin(RMul(omega, prev_t))), prevlmu))
  IN  [cos_integral |-> RAdd(c1, RMul(RMul(half_dt, Cos(RMul(omega, time))), lmu)),
       sin_integral |-> RAdd(s1, RMul(RMul(half_dt, Sin(RMul(omega, time))), lmu))]

(***************************************************************************)
(* The outer simulation, as far as the hooks see it                        *)
(***************************************************************************)
\* where atom a sits on axis j when the simulation starts
Pos0(a, j) == CASE j = 0 -> a [] j = 1 -> 1 [] j = 2 -> a + 1

\* the force of the first (energy) potential: a harmonic well
PESForce(position) == [l \in DOMAIN position |-> RNeg(position[l])]

\* the MD steps the outer simulation may take: how far the atoms move along z,
\* and the value of the clock after the step, in tenths of the natural time unit
Advances == {<<0, 1>>, <<0, 2>>, <<1, 2>>}

\* the hooks of one MD step, in the order the outer simulation calls them
HookOrder == <<"dipole", "force", "update", "write">>
\* what the outer simulation does after hook h: the next hook, or the next MD step
HookAfter(h) ==
  LET n == CHOOSE m \in 1..Len(HookOrder) : HookOrder[m] = h
  IN  IF n = Len(HookOrder) THEN "md" ELSE HookOrder[n + 1]

Atom0(N, m) ==
  LET position == [l \in 0..(3 * N - 1) |-> R(Pos0(l % N, l \div N))]
  IN  [number_of_atoms |-> N,
       mass |-> [a \in 0..(N - 1) |-> R(m * (a + 1))],
       type |-> [a \in 0..(N - 1) |-> a % 2],
       position_per_atom |-> position,
       force_per_atom |-> PESForce(position)]

\* the systems simulated: up to MaxAtoms atoms of masses 1, 2, ..., and one
\* massless atom
Systems == {Atom0(N, 1) : N \in 0..MaxAtoms} \cup {Atom0(1, 0)}

\* the potentials a run.in may configure, by nep_model_type (1: dipole model)
PotentialLists == {<<0>>, <<0, 0>>, <<0, 1>>, <<0, 1, 1>>}

\* tokens of the keyword line
Word == [kind |-> "word", val |-> R(0)]
Num(x) == [kind |-> "number", val |-> x]
is_valid_real(tok) == tok.kind = "number"
is_valid_int(tok) == tok.kind = "number" /\ tok.val[2] = 1

Line(np, file, lam, om, ch) ==
  [num_param |-> np, potfile |-> file, lambda |-> lam, omega |-> om, charge |-> ch]
GoodLines ==
  {Line(5, "ok", Num(R(2)), Num(R(1)), Num(R(1))),
   Line(5, "ok", Num(R(1)), Num(R(2)), Num(R(0))),
   Line(5, "ok", Num(R(2)), Num(R(0)), Num(R(1)))}
\* with fewer than two tokens param[1] is read past the end of the line: the
\* name it yields may or may not be that of a file
BadLines ==
  {Line(1, "ok", Word, Word, Word),
   Line(1, "missing", Word, Word, Word),
   Line(4, "ok", Num(R(2)), Num(R(1)), Word),
   Line(6, "ok", Num(R(2)), Num(R(1)), Num(R(0))),
   Line(5, "missing", Num(R(2)), Num(R(1)), Num(R(0))),
   Line(5, "empty", Num(R(2)), Num(R(1)), Num(R(0))),
   Line(5, "ok", Word, Num(R(1)), Num(R(0))),
   Line(5, "ok", Num(R(-1)), Num(R(1)), Num(R(0))),
   Line(5, "ok", Num(R(2)), Word, Num(R(0))),
   Line(5, "ok", Num(R(2)), Num(R(-1)), Num(R(0))),
   Line(5, "ok", Num(R(2)), Num(R(1)), Word),
   Line(5, "ok", Num(R(2)), Num(R(1)), Num(<<3, 2>>))}
Lines == GoodLines \cup BadLines

OldRow == [step |-> 0, cols |-> <<>>]
File0 == [disk |-> <<OldRow>>, buf |-> <<>>]
History0 ==
  [keyword |-> FALSE, dipole_evals |-> 0, osc_steps |-> 0, jac_rows |-> 0, cav_rows |-> 0,
   samples |-> <<>>]

EmptySnapshot ==
  [type |-> <<>>, mass |-> <<>>, position_per_atom |-> <<>>, virial_per_atom |-> <<>>]
EmptyBatch ==
  [type |-> <<>>, mass |-> <<>>, position_per_atom |-> <<>>, system_index |-> <<>>]

KernelIdle ==
  /\ kN = 0 /\ bid = 0 /\ lane_pc = <<>> /\ lane_d = <<>>
  /\ lane_round = <<>> /\ s_d = <<>> /\ g_dipole = <<>> /\ reads = {} /\ writes = {}

CavityInit ==
  /\ enabled_ = FALSE
  /\ number_of_atoms_ = 0
  /\ number_of_copied_systems_ = 0
  /\ number_of_atoms_in_copied_system_ = 0
  /\ coupling_strength = R(garbage) /\ cavity_frequency = R(garbage)
  /\ charge = R(garbage)
  /\ mass_ = R(0) /\ masses_ = <<>>
  /\ cpu_dipole_ = <<>> /\ cpu_dipole_jacobian_ = <<>> /\ cpu_cavity_force_ = <<>>
  /\ q0 = R(garbage) /\ q = R(garbage) /\ p = R(garbage)
  /\ cavity_pot = R(garbage) /\ cavity_kin = R(garbage)
  /\ cos_integral = R(garbage) /\ sin_integral = R(garbage)
  /\ prevtime = R(garbage) /\ prevdipole = <<>>
  /\ atom_copy = EmptySnapshot /\ atom_cavity = EmptyBatch
  /\ jacfile_ = "null" /\ cavfile_ = "null"
  /\ jacobian_out = File0 /\ cavity_out = File0
  /\ history = History0

Init ==
  /\ pc = "input" /\ status = "running"
  /\ run = 0 /\ step = 0 /\ total_steps = 0
  /\ global_time = R(0)
  /\ \/ /\ atom \in Systems
        /\ potentials = <<0, 1>>
        /\ garbage \in {0, 1}
        /\ param \in GoodLines
     \/ /\ atom = Atom0(1, 1)
        /\ garbage = 0
        /\ \/ potentials = <<0, 1>> /\ param \in BadLines
           \/ potentials \in PotentialLists /\ param = Line(5, "ok", Num(R(2)), Num(R(1)), Num(R(1)))
  /\ CavityInit
  /\ KernelIdle

(***************************************************************************)
(* Cavity::parse                                                           *)
(***************************************************************************)
\* parse without the two sign checks
ParseStage_unsigned(line) ==
  CASE line.potfile = "missing" -> 1
    [] line.potfile = "empty" -> 2
    [] line.num_param # 5 -> 3
    [] ~is_valid_real(line.lambda) -> 4
    [] ~is_valid_real(line.omega) -> 6
    [] ~is_valid_int(line.charge) -> 8
    [] OTHER -> 9

\* how far parse gets on a keyword line: the number of the check that fails,
\* in the order of the source, or 9 when none does
ParseStage(line) ==
  CASE line.potfile = "missing" -> 1                 \* my_fopen fails
    [] line.potfile = "empty" -> 2                   \* count != 1
    [] line.num_param # 5 -> 3
    [] ~is_valid_real(line.lambda) -> 4
    [] RLess(line.lambda.val, R(0)) -> 5
    [] ~is_valid_real(line.omega) -> 6
    [] RLess(line.omega.val, R(0)) -> 7
    [] ~is_valid_int(line.charge) -> 8
    [] OTHER -> 9

StartRun(keyword) ==
  /\ pc = "input" /\ status = "running" /\ run < MaxRuns /\ total_steps < MaxSteps
  /\ run' = run + 1
  /\ step' = 0
  /\ history' = [keyword |-> keyword, dipole_evals |-> 0, osc_steps |-> 0,
                 jac_rows |-> Len(jacobian_out.disk),
                 cav_rows |-> Len(cavity_out.disk),
                 samples |-> <<>>]

\* the run.in of this run has a cavity keyword: parse is called with it
Parse ==
  LET line == param
      stage == ParseStage(line)
      number_of_atoms == atom.number_of_atoms
  IN  /\ StartRun(TRUE)
      /\ enabled_' = TRUE
      /\ number_of_atoms_' = IF stage >= 3 THEN number_of_atoms ELSE number_of_atoms_
      /\ number_of_copied_systems_' =
           IF stage >= 3 THEN 12 * number_of_atoms ELSE number_of_copied_systems_
      /\ number_of_atoms_in_copied_system_' =
           IF stage >= 3 THEN (12 * number_of_atoms) * number_of_atoms
           ELSE number_of_atoms_in_copied_system_
      /\ coupling_strength' = IF stage >= 5 THEN line.lambda.val ELSE coupling_strength
      /\ cavity_frequency' = IF stage >= 7 THEN line.omega.val ELSE cavity_frequency
      /\ charge' = IF stage >= 9 THEN line.charge.val ELSE charge
      /\ status' = IF stage = 9 THEN "running" ELSE "aborted"
      /\ pc' = IF stage = 9 THEN "initialize" ELSE pc
      /\ UNCHANGED <<total_steps, global_time, atom, potentials, garbage>>
      /\ UNCHANGED <<massVars, dipoleVars, cpu_cavity_force_, oscVars, snapVars,
                     fileVars, param, kernelVars>>

\* this run has no cavity keyword: parse is not called
NoKeyword ==
  /\ StartRun(FALSE)
  /\ pc' = "initialize"
  /\ UNCHANGED <<status, total_steps, global_time, atom, potentials, garbage>>
  /\ UNCHANGED <<paramVars, massVars, dipoleVars, cpu_cavity_force_, oscVars,
                 snapVars, fileVars, param, kernelVars>>

(***************************************************************************)
(* Cavity::compute_dipole_and_jacobian, on the fields it reads and writes  *)
(***************************************************************************)
\* GPU_Vector::resize: n values nobody has written
GpuResize(n, unset) == [l \in 0..(n - 1) |-> unset]

DipoleAndJacobian(N, outer_position, copy, cav, chg, total_mass, jac) ==
  LET position == copy_positions(N, outer_position, copy.position_per_atom)
      gpu_dipole == get_dipole(N, position)
      cpu_center_of_mass == _get_center_of_mass(N, total_mass, copy.mass, position)
  IN  [atom_copy |-> [copy EXCEPT !.position_per_atom = position,
                                  !.virial_per_atom = PotentialCompute(position, N)],
       cpu_dipole_ |-> ConvertedDipole(gpu_dipole, chg, cpu_center_of_mass),
       atom_cavity |-> BuildBatch(N, position, Displacement, cav),
       cpu_dipole_jacobian_ |-> CollectJacobian(N, jac)]

(***************************************************************************)
(* Cavity::initialize                                                      *)
(***************************************************************************)
\* std::vector<int>::resize
ResizeInt(v, n) == [l \in 0..(n - 1) |-> IF l \in DOMAIN v THEN v[l] ELSE 0]

\* mass_ after the loop of lines 328-332
TotalMass(total, cpu_mass, N) == RAdd(total, RSum(cpu_mass, 0, N - 1))

\* q0 as line 359 sets it
InitialPosition(lambda, dipole, omega) == RDiv(RMul(lambda, dipole[2]), omega)

Initialize ==
  /\ pc = "initialize" /\ status = "running"
  /\ IF ~enabled_
       THEN /\ pc' = "md"
            /\ UNCHANGED <<status, cavityVars>>
       ELSE LET N == number_of_atoms_
                NN == number_of_atoms_in_copied_system_
                number_of_potentials == Len(potentials)
                ok == number_of_potentials = 2 /\ potentials[2] = 1
                copy0 == [type |-> GpuResize(N, garbage),
                          mass |-> GpuResize(N, R(garbage)),
                          position_per_atom |-> GpuResize(3 * N, R(garbage)),
                          virial_per_atom |-> GpuResize(9 * N, R(garbage))]
                cav0 == [type |-> GpuResize(NN, garbage),
                         mass |-> GpuResize(NN, R(garbage)),
                         position_per_atom |->
                           Resize(atom_cavity.position_per_atom, 3 * NN),
                         system_index |-> ResizeInt(atom_cavity.system_index, NN)]
                copy1 == [copy0 EXCEPT !.type = atom.type, !.mass = atom.mass]
                cav1 == [cav0 EXCEPT !.mass = copy_to_cavity(N, atom.mass, @),
                                     !.type = copy_to_cavity(N, atom.type, @)]
                total == TotalMass(mass_, atom.mass, N)
                r == DipoleAndJacobian(N, atom.position_per_atom, copy1, cav1,
                                       charge, total, Resize(cpu_dipole_jacobian_, 9 * N))
            IN  /\ jacfile_' = "open" /\ cavfile_' = "open"
                /\ cpu_cavity_force_' = Resize(cpu_cavity_force_, 3 * N)
                /\ UNCHANGED <<paramVars, jacobian_out, cavity_out, param,
                               q, p, cavity_pot, cavity_kin>>
                /\ IF ~ok
                     THEN /\ status' = "aborted" /\ pc' = pc
                          /\ prevdipole' = Resize(prevdipole, 3)
                          /\ cpu_dipole_' = Resize(cpu_dipole_, 3)
                          /\ cpu_dipole_jacobian_' = Resize(cpu_dipole_jacobian_, 9 * N)
                          /\ atom_copy' = copy0 /\ atom_cavity' = cav0
                          /\ UNCHANGED <<massVars, q0, cos_integral, sin_integral,
                                         prevtime, history>>
                     ELSE /\ status' = "running" /\ pc' = "md"
                          /\ masses_' = atom.mass
                          /\ mass_' = total
                          /\ atom_copy' = r.atom_copy
                          /\ atom_cavity' = r.atom_cavity
                          /\ cpu_dipole_' = r.cpu_dipole_
                          /\ cpu_dipole_jacobian_' = r.cpu_dipole_jacobian_
                          /\ q0' = InitialPosition(coupling_strength, r.cpu_dipole_,
                                                   cavity_frequency)
                          /\ cos_integral' = R(0)
                          /\ sin_integral' = R(0)
                          /\ prevtime' = R(0)
                          /\ prevdipole' = r.cpu_dipole_
                          /\ history' =
                               [history EXCEPT
                                  !.dipole_evals = @ + 1,
                                  !.samples = <<[time |-> R(0), dipole |-> r.cpu_dipole_]>>]
  /\ UNCHANGED <<run, step, total_steps, global_time, atom, potentials, garbage>>
  /\ UNCHANGED kernelVars

(***************************************************************************)
(* The hooks of an MD step, and the step of the outer simulation itself    *)
(***************************************************************************)
\* the integrator moves the atoms along z, the first potential recomputes the
\* forces, and the clock is set
Integrate(move, tick) ==
  /\ pc = "md" /\ status = "running" /\ total_steps < MaxSteps
  /\ LET N == atom.number_of_atoms
         position == [l \in DOMAIN atom.position_per_atom |->
                        IF l >= 2 * N THEN RAdd(atom.position_per_atom[l], R(move))
                        ELSE atom.position_per_atom[l]]
     IN  atom' = [atom EXCEPT !.position_per_atom = position,
                              !.force_per_atom = PESForce(position)]
  /\ global_time' = Norm(tick, 10)
  /\ total_steps' = total_steps + 1
  /\ pc' = HookOrder[1]
  /\ UNCHANGED <<status, run, step, potentials, garbage, cavityVars, kernelVars>>

\* compute_dipole_and_jacobian with get_dipole run on the outer Atom instead of
\* the private copy: initialize_properties zeroes the outer force buffer
ComputeDipoleAndJacobian_on_outer_atom ==
  /\ pc = "dipole" /\ status = "running"
  /\ pc' = HookAfter("dipole")
  /\ IF ~enabled_
       THEN UNCHANGED <<dipoleVars, snapVars, history, atom>>
       ELSE LET r == DipoleAndJacobian(number_of_atoms_, atom.position_per_atom,
                                       atom_copy, atom_cavity, charge, mass_,
                                       cpu_dipole_jacobian_)
            IN  /\ atom_copy' = r.atom_copy
                /\ atom_cavity' = r.atom_cavity
                /\ cpu_dipole_' = r.cpu_dipole_
                /\ cpu_dipole_jacobian_' = r.cpu_dipole_jacobian_
                /\ history' = [history EXCEPT !.dipole_evals = @ + 1]
                /\ atom' = [atom EXCEPT !.force_per_atom = Zeros(3 * number_of_atoms_)]
  /\ UNCHANGED <<status, run, step, total_steps, global_time, potentials, garbage>>
  /\ UNCHANGED <<paramVars, massVars, cpu_cavity_force_, oscVars, fileVars, param>>
  /\ UNCHANGED kernelVars

ComputeDipoleAndJacobian ==
  /\ pc = "dipole" /\ status = "running"
  /\ pc' = HookAfter("dipole")
  /\ IF ~enabled_
       THEN UNCHANGED <<dipoleVars, snapVars, history>>
       ELSE LET r == DipoleAndJacobian(number_of_atoms_, atom.position_per_atom,
                                       atom_copy, atom_cavity, charge, mass_,
                                       cpu_dipole_jacobian_)
            IN  /\ atom_copy' = r.atom_copy
                /\ atom_cavity' = r.atom_cavity
                /\ cpu_dipole_' = r.cpu_dipole_
                /\ cpu_dipole_jacobian_' = r.cpu_dipole_jacobian_
                /\ history' = [history EXCEPT !.dipole_evals = @ + 1]
  /\ UNCHANGED <<status, run, step, total_steps, global_time, atom, potentials, garbage>>
  /\ UNCHANGED <<paramVars, massVars, cpu_cavity_force_, oscVars, fileVars, param>>
  /\ UNCHANGED kernelVars

ComputeAndApplyCavityForce ==
  /\ pc = "force" /\ status = "running"
  /\ pc' = HookAfter("force")
  /\ IF ~enabled_
       THEN UNCHANGED <<cpu_cavity_force_, atom>>
       ELSE LET f == cavity_force(number_of_atoms_, cavity_frequency, coupling_strength,
                                  q, cpu_dipole_, cpu_dipole_jacobian_)
            IN  /\ cpu_cavity_force_' = f
                /\ atom' = [atom EXCEPT !.force_per_atom =
                              apply_cavity_force(number_of_atoms_, @, f)]
  /\ UNCHANGED <<status, run, step, total_steps, global_time, potentials, garbage>>
  /\ UNCHANGED <<paramVars, massVars, dipoleVars, oscVars, snapVars, fileVars,
                 param, history>>
  /\ UNCHANGED kernelVars

UpdateCavity ==
  /\ pc = "update" /\ status = "running"
  /\ pc' = HookAfter("update")
  /\ IF ~enabled_
       THEN UNCHANGED <<oscVars, history>>
       ELSE LET time == RMul(global_time, TIME_UNIT_CONVERSION)
                I == step_cavity(time, cavity_frequency, coupling_strength,
                                 cos_integral, sin_integral, prevtime, prevdipole,
                                 cpu_dipole_)
                qq == canonical_position(time, cavity_frequency, I.cos_integral,
                                         I.sin_integral, q0)
                pp == canonical_momentum(time, cavity_frequency, I.cos_integral,
                                         I.sin_integral, q0)
            IN  /\ cos_integral' = I.cos_integral
                /\ sin_integral' = I.sin_integral
                /\ prevtime' = time
                /\ prevdipole' = cpu_dipole_
                /\ q' = qq
                /\ p' = pp
                /\ cavity_pot' = cavity_potential_energy(cavity_frequency,
                                                         coupling_strength, qq, cpu_dipole_)
                /\ cavity_kin' = cavity_kinetic_energy(pp)
                /\ q0' = q0
                /\ history' =
                     [history EXCEPT
                        !.osc_steps = @ + 1,
                        !.samples = Append(@, [time |-> time, dipole |-> cpu_dipole_])]
  /\ UNCHANGED <<status, run, step, total_steps, global_time, atom, potentials, garbage>>
  /\ UNCHANGED <<paramVars, massVars, dipoleVars, cpu_cavity_force_, snapVars,
                 fileVars, param>>
  /\ UNCHANGED kernelVars

\* the values of an array, in index order
Cols(f) == [l \in 1..Cardinality(DOMAIN f) |-> f[l - 1]]

\* fprintf of one whole row, and fflush
fprintf(file, row) == [file EXCEPT !.buf = Append(@, row)]
fflush(file) == [disk |-> file.disk \o file.buf, buf |-> <<>>]

write_dipole(file, stp, dipole, jacobian) ==
  fflush(fprintf(file, [step |-> stp, cols |-> Cols(dipole) \o Cols(jacobian)]))

\* write_cavity without its fflush
write_cavity_buffered(file, stp, time, qq, pp, pot, kin, cav_force) ==
  fprintf(file, [step |-> stp, cols |-> <<time, qq, pp, pot, kin>> \o Cols(cav_force)])

write_cavity(file, stp, time, qq, pp, pot, kin, cav_force) ==
  fflush(fprintf(file, [step |-> stp,
                        cols |-> <<time, qq, pp, pot, kin>> \o Cols(cav_force)]))

Write ==
  /\ pc = "write" /\ status = "running"
  /\ pc' = HookAfter("write")
  /\ step' = step + 1
  /\ IF ~enabled_
       THEN UNCHANGED <<jacobian_out, cavity_out>>
       ELSE LET time == RMul(global_time, TIME_UNIT_CONVERSION)
            IN  /\ jacobian_out' = write_dipole(jacobian_out, step, cpu_dipole_,
                                                cpu_dipole_jacobian_)
                /\ cavity_out' = write_cavity(cavity_out, step, time, q, p,
                                              cavity_pot, cavity_kin, cpu_cavity_force_)
  /\ UNCHANGED <<status, run, total_steps, global_time, atom, potentials, garbage>>
  /\ UNCHANGED <<paramVars, massVars, dipoleVars, cpu_cavity_force_, oscVars,
                 snapVars, jacfile_, cavfile_, param, history>>
  /\ UNCHANGED kernelVars

\* finalize without its enabled_ guard: the two streams are closed in any case
Finalize_unguarded ==
  /\ pc = "md" /\ status = "running" /\ step >= 1
  /\ pc' = "input"
  /\ jacfile_' = "closed" /\ cavfile_' = "closed"
  /\ enabled_' = FALSE
  /\ UNCHANGED <<status, run, step, total_steps, global_time, atom, potentials, garbage>>
  /\ UNCHANGED <<number_of_atoms_, number_of_copied_systems_,
                 number_of_atoms_in_copied_system_, coupling_strength,
                 cavity_frequency, charge>>
  /\ UNCHANGED <<massVars, dipoleVars, cpu_cavity_force_, oscVars, snapVars,
                 jacobian_out, cavity_out, param, history>>
  /\ UNCHANGED kernelVars

\* a run takes at least one step
Finalize ==
  /\ pc = "md" /\ status = "running" /\ step >= 1
  /\ pc' = "input"
  /\ IF enabled_
       THEN /\ jacfile_' = "closed" /\ cavfile_' = "closed"
            /\ enabled_' = FALSE
       ELSE UNCHANGED <<jacfile_, cavfile_, enabled_>>
  /\ UNCHANGED <<status, run, step, total_steps, global_time, atom, potentials, garbage>>
  /\ UNCHANGED <<number_of_atoms_, number_of_copied_systems_,
                 number_of_atoms_in_copied_system_, coupling_strength,
                 cavity_frequency, charge>>
  /\ UNCHANGED <<massVars, dipoleVars, cpu_cavity_force_, oscVars, snapVars,
                 jacobian_out, cavity_out, param, history>>
  /\ UNCHANGED kernelVars

Next ==
  \/ Parse
  \/ NoKeyword
  \/ Initialize
  \/ \E adv \in Advances : Integrate(adv[1], adv[2])
  \/ ComputeDipoleAndJacobian
  \/ ComputeAndApplyCavityForce
  \/ UpdateCavity
  \/ Write
  \/ Finalize

Spec == Init /\ [][Next]_vars

(***************************************************************************)
(* One block of the kernel sum_dipole, lane by lane.  A partial sum is the *)
(* bag of the entries of g_virial_per_atom added into it, so that a sum    *)
(* tells which entries went into it and how often.  A lane waits at a      *)
(* barrier until every lane of the block (__syncthreads) or of its warp    *)
(* (__syncwarp) has reached it.  A step of a lane is one access to shared  *)
(* memory together with the private work that follows it.                  *)
(***************************************************************************)
Lanes == 0..(number_of_threads - 1)
\* what a shared or global slot holds before anybody writes it
Unwritten == SetToBag({-1})

RECURSIVE LaneBag(_, _, _, _)
\* lines 46-50: d of lane tid after patches 0..patch-1
LaneBag(N, patch, componentIdx, tid) ==
  IF patch = 0 THEN EmptyBag
  ELSE LET atomIdx == tid + (patch - 1) * number_of_threads
           d == LaneBag(N, patch - 1, componentIdx, tid)
       IN  IF atomIdx < N THEN d (+) SetToBag({componentIdx + atomIdx}) ELSE d

RECURSIVE OffsetOfRound(_)
\* the offset of the r-th pass of the two loops of lines 58-69, r = 1, 2, ...
OffsetOfRound(r) ==
  IF r = 1 THEN number_of_threads \div 2 ELSE OffsetOfRound(r - 1) \div 2
RECURSIVE RoundsFrom(_)
RoundsFrom(offset) == IF offset = 0 THEN 0 ELSE 1 + RoundsFrom(offset \div 2)
\* passes of the two loops together
Rounds == RoundsFrom(number_of_threads \div 2)
\* the barrier that ends pass r is __syncthreads in the first loop (offset > 32)
\* and __syncwarp in the second; barrier 0 is the __syncthreads of line 54
BlockBarrier(b) == b = 0 \/ OffsetOfRound(b) > WarpSize
SyncGroup(tid, b) ==
  IF BlockBarrier(b) THEN Lanes
  ELSE {l \in Lanes : l \div WarpSize = tid \div WarpSize}

KernelInit ==
  /\ kN \in 1..MaxKernelN
  /\ bid \in 0..2
  /\ lane_pc = [tid \in Lanes |-> "start"]
  /\ lane_d = [tid \in Lanes |-> EmptyBag]
  /\ lane_round = [tid \in Lanes |-> 0]
  /\ s_d = [tid \in Lanes |-> Unwritten]
  /\ g_dipole = [b \in 0..2 |-> Unwritten]
  /\ reads = {} /\ writes = {}

\* lines 38-53: the strided sum of the lane, saved in its shared slot
LaneStore(tid) ==
  /\ lane_pc[tid] = "start"
  /\ LET componentIdx == bid * kN
         d == LaneBag(kN, number_of_atoms_per_thread(kN), componentIdx, tid)
     IN  /\ lane_d' = [lane_d EXCEPT ![tid] = d]
         /\ s_d' = [s_d EXCEPT ![tid] = d]
  /\ writes' = writes \cup {<<0, tid, tid>>}
  /\ lane_pc' = [lane_pc EXCEPT ![tid] = "sync"]
  /\ UNCHANGED <<kN, bid, lane_round, g_dipole, reads>>
  /\ UNCHANGED <<outerVars, cavityVars>>

\* where a lane stands once barrier b lets it go: at its loads when it takes part
\* in the next pass, at the next barrier when it does not, and after the last
\* pass at line 72
AfterBarrier(l, b) ==
  IF b = Rounds THEN (IF l = 0 THEN "final" ELSE "done")
  ELSE IF l < OffsetOfRound(b + 1) THEN "round" ELSE "sync"

\* every lane of the group of tid has reached the barrier: they all go on
BarrierRelease(tid) ==
  /\ lane_pc[tid] = "sync"
  /\ LET b == lane_round[tid]
         group == SyncGroup(tid, b)
     IN  /\ \A l \in group : l >= tid /\ lane_round[l] = b /\ lane_pc[l] = "sync"
         /\ lane_round' = [l \in Lanes |-> IF l \in group THEN b + 1 ELSE lane_round[l]]
         /\ lane_pc' = [l \in Lanes |->
                          IF l \in group THEN AfterBarrier(l, b) ELSE lane_pc[l]]
  /\ UNCHANGED <<kN, bid, lane_d, s_d, g_dipole, reads, writes>>
  /\ UNCHANGED <<outerVars, cavityVars>>

\* s_d[tid] += s_d[tid + offset], first half: the two loads and the addition
LaneLoad(tid) ==
  /\ lane_pc[tid] = "round"
  /\ LET r == lane_round[tid]
         offset == OffsetOfRound(r)
     IN  /\ tid < offset
         /\ lane_d' = [lane_d EXCEPT ![tid] = s_d[tid] (+) s_d[tid + offset]]
         /\ reads' = reads \cup {<<r, tid, tid>>, <<r, tid, tid + offset>>}
  /\ lane_pc' = [lane_pc EXCEPT ![tid] = "add"]
  /\ UNCHANGED <<kN, bid, lane_round, s_d, g_dipole, writes>>
  /\ UNCHANGED <<outerVars, cavityVars>>

\* s_d[tid] += s_d[tid + offset], second half: the store
LaneAdd(tid) ==
  /\ lane_pc[tid] = "add"
  /\ s_d' = [s_d EXCEPT ![tid] = lane_d[tid]]
  /\ writes' = writes \cup {<<lane_round[tid], tid, tid>>}
  /\ lane_pc' = [lane_pc EXCEPT ![tid] = "sync"]
  /\ UNCHANGED <<kN, bid, lane_d, lane_round, g_dipole, reads>>
  /\ UNCHANGED <<outerVars, cavityVars>>

\* lines 72-74, which only lane 0 executes
LaneFinal(tid) ==
  /\ lane_pc[tid] = "final"
  /\ g_dipole' = [g_dipole EXCEPT ![bid] = s_d[0]]
  /\ lane_pc' = [lane_pc EXCEPT ![tid] = "done"]
  /\ UNCHANGED <<kN, bid, lane_d, lane_round, s_d, reads, writes>>
  /\ UNCHANGED <<outerVars, cavityVars>>

\* the rest of the program is at rest while the kernel runs
HostAtRest ==
  /\ pc = "kernel" /\ status = "running"
  /\ run = 0 /\ step = 0 /\ total_steps = 0
  /\ global_time = R(0)
  /\ atom = Atom0(0, 1)
  /\ potentials = <<0, 1>>
  /\ garbage = 0
  /\ param = Line(5, "ok", Num(R(2)), Num(R(1)), Num(R(1)))
  /\ CavityInit

\* get_dipole has launched the kernel
KernelLaunched ==
  /\ HostAtRest
  /\ KernelInit

KernelNext ==
  \E tid \in Lanes :
    \/ LaneStore(tid)
    \/ BarrierRelease(tid)
    \/ LaneLoad(tid)
    \/ LaneAdd(tid)
    \/ LaneFinal(tid)

SpecKernel == KernelLaunched /\ [][KernelNext]_vars

(***************************************************************************)
(* Properties.  Rows of this run are those past the rows the files held    *)
(* when the run started; row n of the oscillator stream and row n of the   *)
(* dipole/Jacobian stream are written by the same call of write.           *)
(***************************************************************************)
RowsOfRun == Len(cavity_out.disk) - history.cav_rows

\* C1: in every row of the oscillator stream the force columns equal
\* (omega*q - lambda*mu_z) * lambda * gradient[i,j,z] for the q of that same row,
\* mu_z and the gradient being those of the same step (the row of the
\* dipole/Jacobian stream written with it): the force added in a step is
\* computed from q(t) of that step, not from an older or unset q.
C1_ForceFromPositionOfSameStep ==
  (enabled_ /\ status = "running") =>
    \A n \in 1..RowsOfRun :
      LET row == cavity_out.disk[history.cav_rows + n]
          jrow == jacobian_out.disk[history.jac_rows + n]
          N == number_of_atoms_
          factor == RSub(RMul(cavity_frequency, row.cols[2]),
                         RMul(coupling_strength, jrow.cols[3]))
      IN  \A i \in 0..(N - 1), j \in 0..2 :
            row.cols[5 + (j * N + i) + 1] =
              RMul(RMul(factor, coupling_strength), jrow.cols[3 + (j * 3 + i * 9 + 2) + 1])

\* the dipole evaluator's answer, component k, for the reference positions with
\* coordinate j of atom i moved by s
C2_ReplicaDipole(N, ref, i, j, s, k) ==
  LET moved == [ref EXCEPT ![j * N + i] = RAdd(@, s)]
  IN  RSum([a \in 0..(N - 1) |-> AtomDipole(moved, N, a, k)], 0, N - 1)

\* [c0*mu_k(+2h) + c1*mu_k(+h) - c1*mu_k(-h) - c0*mu_k(-2h)] / h
C2_Stencil(N, ref, h, i, j, k) ==
  LET c0 == <<-1, 12>>
      c1 == <<2, 3>>
      mu(s) == C2_ReplicaDipole(N, ref, i, j, s, k)
  IN  RDiv(RSub(RSub(RAdd(RMul(c0, mu(RMul(R(2), h))), RMul(c1, mu(h))),
                     RMul(c1, mu(RNeg(h)))),
                RMul(c0, mu(RMul(R(-2), h)))),
           h)

\* C2: after every dipole-and-Jacobian evaluation, for every atom i, axis j and
\* component k the stored gradient entry equals the central-difference
\* combination of the four replica dipoles for (i, j), which for the linear
\* evaluator mu = A*r is A[k][j].
C2_GradientIsCentralDifference ==
  (enabled_ /\ status = "running" /\ history.dipole_evals >= 1) =>
    \A i \in 0..(number_of_atoms_ - 1), j \in 0..2, k \in 0..2 :
      /\ cpu_dipole_jacobian_[j * 3 + i * 9 + k] =
           C2_Stencil(number_of_atoms_, atom_copy.position_per_atom, Displacement, i, j, k)
      /\ cpu_dipole_jacobian_[j * 3 + i * 9 + k] = R(A[k + 1][j + 1])

\* C3: one call of compute_and_apply_cavity_force changes entry (atom i, axis j)
\* of the outer force buffer by exactly (omega*q - lambda*mu_z) * lambda *
\* gradient[i,j,z], added to the value already there, and leaves in the cavity
\* force buffer exactly these 3N values, whatever it held before.
C3_ForceAddedOnTop ==
  [][(pc = "force" /\ enabled_ /\ pc' # pc) =>
       LET N == number_of_atoms_
           factor == RSub(RMul(cavity_frequency, q),
                          RMul(coupling_strength, cpu_dipole_[2]))
       IN  /\ DOMAIN cpu_cavity_force_' = 0..(3 * N - 1)
           /\ DOMAIN atom'.force_per_atom = DOMAIN atom.force_per_atom
           /\ \A i \in 0..(N - 1), j \in 0..2 :
                LET added == RMul(RMul(factor, coupling_strength),
                                  cpu_dipole_jacobian_[j * 3 + i * 9 + 2])
                IN  /\ atom'.force_per_atom[j * N + i] =
                         RAdd(atom.force_per_atom[j * N + i], added)
                    /\ cpu_cavity_force_'[j * N + i] = added]_vars

\* a call has added a nonzero cavity force to a nonzero force of the first potential
C3_Witness ==
  /\ pc = "update" /\ enabled_
  /\ \E l \in DOMAIN cpu_cavity_force_ :
       /\ IsFinite(cpu_cavity_force_[l]) /\ cpu_cavity_force_[l] # R(0)
       /\ PESForce(atom.position_per_atom)[l] # R(0)
       /\ atom.force_per_atom[l] =
            RAdd(PESForce(atom.position_per_atom)[l], cpu_cavity_force_[l])

\* the oscillator was given samples at times 0, dt, 2dt, ... with the same
\* lambda * mu_z in each
C4_UniformConstant(samples) ==
  /\ Len(samples) >= 2
  /\ \A n \in 1..Len(samples) :
       /\ samples[n].time = RMul(R(n - 1), samples[2].time)
       /\ samples[n].dipole[2] = samples[1].dipole[2]

\* sum over n = 1..k of 0.5*dt*[cos(omega*t_(n-1)) + cos(omega*t_n)]*c
C4_ClosedForm(samples, omega, c) ==
  LET dt == samples[2].time
  IN  RSum([n \in 1..(Len(samples) - 1) |->
              RMul(RMul(RMul(<<1, 2>>, dt),
                        RAdd(Cos(RMul(omega, samples[n].time)),
                             Cos(RMul(omega, samples[n + 1].time)))),
                   c)],
           1, Len(samples) - 1)

\* C4: each oscillator step to time t, with dt = t - prevtime, adds
\* 0.5*dt*[cos(omega*prevtime)*lambda*mu_z(prevtime) + cos(omega*t)*lambda*mu_z(t)]
\* to cos_integral and the sine-weighted analogue to sin_integral, then sets
\* prevtime = t and prevdipole = mu(t); and after k steps with constant
\* lambda*mu_z = c and uniform dt, cos_integral is the sum over n = 1..k of
\* 0.5*dt*[cos(omega*t_(n-1)) + cos(omega*t_n)]*c.
C4_TrapezoidStep ==
  /\ [][(pc = "update" /\ enabled_ /\ pc' # pc) =>
          LET t == RMul(global_time, TIME_UNIT_CONVERSION)
              half_dt == RMul(<<1, 2>>, RSub(t, prevtime))
              prevlmu == RMul(coupling_strength, prevdipole[2])
              lmu == RMul(coupling_strength, cpu_dipole_[2])
          IN  /\ cos_integral' =
                   RAdd(cos_integral,
                        RMul(half_dt,
                             RAdd(RMul(Cos(RMul(cavity_frequency, prevtime)), prevlmu),
                                  RMul(Cos(RMul(cavity_frequency, t)), lmu))))
              /\ sin_integral' =
                   RAdd(sin_integral,
                        RMul(half_dt,
                             RAdd(RMul(Sin(RMul(cavity_frequency, prevtime)), prevlmu),
                                  RMul(Sin(RMul(cavity_frequency, t)), lmu))))
              /\ prevtime' = t
              /\ prevdipole' = cpu_dipole_]_vars
  /\ []((history.keyword /\ C4_UniformConstant(history.samples)) =>
          cos_integral =
            C4_ClosedForm(history.samples, cavity_frequency,
                          RMul(coupling_strength, history.samples[1].dipole[2])))

\* two steps of the same length with the same nonzero dipole have been integrated
C4_Witness ==
  /\ history.keyword /\ history.osc_steps = 2
  /\ C4_UniformConstant(history.samples)
  /\ RLess(R(0), history.samples[2].time)
  /\ IsFinite(cos_integral) /\ cos_integral # R(0)
  /\ prevtime = history.samples[3].time

\* C5: after initialize, for every configuration parse accepts, cos_integral =
\* sin_integral = 0, prevtime = 0, prevdipole is the dipole evaluated at time 0,
\* one dipole evaluation and no oscillator step have happened, and q0 is the
\* well-defined (finite) value lambda * mu_z(0) / omega.  Stated for the runs
\* whose time-0 dipole is itself finite.
C5_InitializedOscillator ==
  (enabled_ /\ status = "running" /\ pc = "md" /\ step = 0
     /\ \A i \in 0..2 : IsFinite(cpu_dipole_[i])) =>
    /\ cos_integral = R(0) /\ sin_integral = R(0)
    /\ prevtime = R(0)
    /\ prevdipole = cpu_dipole_
    /\ history.dipole_evals = 1 /\ history.osc_steps = 0
    /\ IsFinite(q0)
    /\ RMul(q0, cavity_frequency) = RMul(coupling_strength, cpu_dipole_[2])

\* C6: the oscillator is never stepped to a time that is not strictly greater
\* than prevtime: the times of the samples it has integrated in a run that is
\* still running are strictly increasing (a repeated or out-of-order step
\* aborts instead of adding a zero or negative-dt increment).
C6_StepsInStrictTimeOrder ==
  (history.keyword /\ status = "running") =>
    \A n \in 1..(Len(history.samples) - 1) :
      RLess(history.samples[n].time, history.samples[n + 1].time)

\* the configurations C7 names: a keyword that does not have exactly 4
\* parameters, a non-numeric or negative lambda or omega, a charge that is no
\* integer, or potentials that are not exactly two with the second a dipole model
C7_BadConfiguration ==
  \/ param.num_param # 5
  \/ param.lambda.kind # "number" \/ RLess(param.lambda.val, R(0))
  \/ param.omega.kind # "number" \/ RLess(param.omega.val, R(0))
  \/ param.charge.kind # "number" \/ param.charge.val[2] # 1
  \/ Len(potentials) # 2
  \/ potentials[2] # 1

\* C7: in a run with the cavity keyword and such a configuration, setup ends in
\* a fatal error: the run never gets past initialize, and no dipole is
\* evaluated, no oscillator step taken and no row written.
C7_SetupFailsFast ==
  (history.keyword /\ C7_BadConfiguration) =>
    /\ pc \in {"input", "initialize"}
    /\ (pc = "input" => status = "aborted")
    /\ history.dipole_evals = 0 /\ history.osc_steps = 0
    /\ Len(jacobian_out.disk) = history.jac_rows /\ jacobian_out.buf = <<>>
    /\ Len(cavity_out.disk) = history.cav_rows /\ cavity_out.buf = <<>>

\* parse accepted the line, and initialize stopped at the potentials
C7_Witness ==
  /\ history.keyword /\ C7_BadConfiguration
  /\ status = "aborted" /\ pc = "initialize"

\* a negative omega was refused by parse
C7_WitnessParse ==
  /\ history.keyword /\ status = "aborted" /\ pc = "input"
  /\ param.omega.kind = "number" /\ RLess(param.omega.val, R(0))

\* C8: when the atom count is 0 or the total mass is 0, the subsystem stops
\* before the first division by the total mass: no dipole evaluation (with its
\* center-of-mass reduction and Jacobian) is ever carried out.
C8_StopsBeforeDividingByZeroMass ==
  (history.keyword
     /\ \/ atom.number_of_atoms = 0
        \/ RSum(atom.mass, 0, atom.number_of_atoms - 1) = R(0)) =>
    history.dipole_evals = 0

\* C9: while the subsystem is enabled, a call of write appends exactly one row
\* to each stream (step, 3 dipole components and 9N gradient values; step, time,
\* q, p, the two energies and 3N force values), after the rows already there,
\* with nothing left in the buffer when it returns; no other hook changes a
\* file; and finalize closes both streams.
C9_OneRowPerWrite ==
  [][/\ (enabled_ /\ pc = "write" /\ pc' # pc) =>
          LET N == number_of_atoms_
              jrow == [step |-> step, cols |-> Cols(cpu_dipole_) \o Cols(cpu_dipole_jacobian_)]
              crow == [step |-> step,
                       cols |-> <<RMul(global_time, TIME_UNIT_CONVERSION), q, p,
                                  cavity_pot, cavity_kin>> \o Cols(cpu_cavity_force_)]
          IN  /\ jacfile_ = "open" /\ cavfile_ = "open"
              /\ Len(jrow.cols) = 3 + 9 * N
              /\ Len(crow.cols) = 5 + 3 * N
              /\ jacobian_out' = [disk |-> Append(jacobian_out.disk, jrow), buf |-> <<>>]
              /\ cavity_out' = [disk |-> Append(cavity_out.disk, crow), buf |-> <<>>]
     /\ ~(enabled_ /\ pc = "write") =>
          /\ jacobian_out' = jacobian_out
          /\ cavity_out' = cavity_out
     /\ (enabled_ /\ pc = "md" /\ pc' = "input") =>
          /\ jacfile_' = "closed"
          /\ cavfile_' = "closed"]_vars

\* a run has written two rows after the old content of each file and was finalized
C9_Witness ==
  /\ history.keyword /\ pc = "input" /\ status = "running"
  /\ jacfile_ = "closed" /\ cavfile_ = "closed"
  /\ Len(jacobian_out.disk) = history.jac_rows + 2
  /\ Len(cavity_out.disk) = history.cav_rows + 2
  /\ cavity_out.disk[1] = OldRow
  /\ cavity_out.disk[Len(cavity_out.disk)].step = 1

\* C10: whatever the interleaving of the lanes between the barriers, once lane 0
\* is done g_dipole[c] of the block holds each of the N entries of component c
\* exactly once and nothing else, and in no round does a lane read a shared
\* slot that another lane writes in that round.
C10_BlockSumOfEveryAtomOnce ==
  /\ (pc = "kernel" /\ lane_pc[0] = "done") =>
       g_dipole[bid] = SetToBag({bid * kN + atomIdx : atomIdx \in 0..(kN - 1)})
  /\ \A rd \in reads, wr \in writes :
       (rd[1] = wr[1] /\ rd[3] = wr[3]) => rd[2] = wr[2]

\* a block has finished an N above the lane count that is no multiple of it
C10_Witness ==
  /\ pc = "kernel"
  /\ \A tid \in Lanes : lane_pc[tid] = "done"
  /\ kN > number_of_threads /\ kN % number_of_threads # 0
  /\ bid = 2
  /\ reads # {}

\* a block has finished N = 1
C10_WitnessOne ==
  /\ pc = "kernel"
  /\ \A tid \in Lanes : lane_pc[tid] = "done"
  /\ kN = 1

\* the positions of an N-atom snapshot, every atom moved by the vector D
C11_Translated(N, position, D) ==
  [l \in DOMAIN position |-> IF l < 3 * N THEN RAdd(position[l], D[l \div N]) ELSE position[l]]

C12_Expected(N, ref, c, a, b) ==
  LET j == c \div (4 * N)
      i == (c % (4 * N)) \div 4
      k == c % 4
  IN  IF b = j /\ a = i THEN RAdd(ref[b * N + a], shifts(Displacement)[k])
      ELSE ref[b * N + a]

\* C12: after the batch construction, replica 4*N*j + 4*i + k is a full N-atom
\* system of the batched snapshot whose coordinates are the reference ones,
\* except coordinate j of atom i, which is shifted by the k-th of +h, +2h, -h,
\* -2h; all 12*N replicas are there.  Replica c holds the atom slots c*N ..
\* c*N + N - 1; the property is asked for the layout of a snapshot of 12*N*N
\* atoms (one block per axis) or else for 3*N contiguous values per replica.
C12_ReplicasAreDisplacedCopies ==
  (enabled_ /\ status = "running" /\ history.dipole_evals >= 1) =>
    LET N == number_of_atoms_
        NN == number_of_atoms_in_copied_system_
        ref == atom_copy.position_per_atom
        batch == atom_cavity.position_per_atom
    IN  \/ \A c \in 0..(12 * N - 1), a \in 0..(N - 1), b \in 0..2 :
             batch[b * NN + c * N + a] = C12_Expected(N, ref, c, a, b)
        \/ \A c \in 0..(12 * N - 1), a \in 0..(N - 1), b \in 0..2 :
             batch[3 * N * c + b * N + a] = C12_Expected(N, ref, c, a, b)

\* C13: after the batch construction, every atom slot in [0, 12*N*N) of the
\* batched snapshot carries the replica tag floor(slot / N), so that each of the
\* tags 0 .. 12*N - 1 labels exactly N contiguous slots.
C13_SlotsTaggedByReplica ==
  (enabled_ /\ status = "running" /\ history.dipole_evals >= 1) =>
    LET N == number_of_atoms_
    IN  /\ DOMAIN atom_cavity.system_index = 0..(12 * N * N - 1)
        /\ \A slot \in 0..(12 * N * N - 1) : atom_cavity.system_index[slot] = slot \div N
        /\ \A c \in 0..(12 * N - 1) :
             {slot \in DOMAIN atom_cavity.system_index : atom_cavity.system_index[slot] = c}
               = (c * N)..(c * N + N - 1)

\* a batch of 12*N replicas of two atoms each has been built and tagged
C13_Witness ==
  /\ enabled_ /\ status = "running" /\ history.dipole_evals >= 1
  /\ number_of_atoms_ = 2
  /\ atom_cavity.system_index[47] = 23

\* C14: of the outer simulation's atoms, the hooks modify the force buffer
\* only, and only in compute_and_apply_cavity_force, where the change is the
\* addition of the cavity force; initialize, compute_dipole_and_jacobian,
\* update_cavity and write leave positions, forces, masses and types as they
\* are, so nothing computed on the private snapshots reaches the outer atoms.
C14_OnlyForceHookTouchesAtoms ==
  [][/\ (pc \in {"input", "initialize", "dipole", "update", "write"}) => atom' = atom
     /\ (pc = "md" /\ pc' = "input") => atom' = atom
     /\ (pc = "force") =>
          /\ atom'.number_of_atoms = atom.number_of_atoms
          /\ atom'.position_per_atom = atom.position_per_atom
          /\ atom'.mass = atom.mass
          /\ atom'.type = atom.type
          /\ DOMAIN atom'.force_per_atom = DOMAIN atom.force_per_atom
          /\ \A l \in DOMAIN atom.force_per_atom :
               atom'.force_per_atom[l] =
                 IF enabled_ THEN RAdd(atom.force_per_atom[l], cpu_cavity_force_'[l])
                 ELSE atom.force_per_atom[l]]_vars

\* a whole step of hooks has run on two atoms, and the outer forces differ from
\* those of the first potential while positions, masses and types are the
\* outer simulation's own
C14_Witness ==
  /\ pc = "md" /\ enabled_ /\ step >= 1
  /\ atom.number_of_atoms = 2
  /\ atom.force_per_atom # PESForce(atom.position_per_atom)
  /\ atom.mass = Atom0(2, 1).mass /\ atom.type = Atom0(2, 1).type

\* the trapezoid increment between two consecutive samples, weighted by cos or sin
C15_Increment(weight, omega, lambda, s0, s1) ==
  LET w(x) == IF weight = "cos" THEN Cos(x) ELSE Sin(x)
  IN  RMul(RMul(<<1, 2>>, RSub(s1.time, s0.time)),
           RAdd(RMul(w(RMul(omega, s0.time)), RMul(lambda, s0.dipole[2])),
                RMul(w(RMul(omega, s1.time)), RMul(lambda, s1.dipole[2]))))

\* the sum of the increments over all the samples of the run
C15_Accumulated(weight, omega, lambda, samples) ==
  RSum([n \in 1..(Len(samples) - 1) |->
          C15_Increment(weight, omega, lambda, samples[n], samples[n + 1])],
       1, Len(samples) - 1)

\* C15: between initialize and finalize, cos_integral, sin_integral, prevtime
\* and prevdipole change only in update_cavity, once per call: the other hooks
\* leave them as they are, each call of update_cavity takes exactly one sample,
\* and at every moment the integrals are the sum of the increments of all the
\* samples taken since initialize (never reset, never recomputed from fewer).
C15_IntegralsOnlyAccumulate ==
  /\ [][/\ (enabled_ /\ pc \in {"dipole", "force", "write", "md"}) =>
             UNCHANGED <<cos_integral, sin_integral, prevtime, prevdipole>>
        /\ (enabled_ /\ pc = "update" /\ pc' # pc) =>
             /\ history'.osc_steps = history.osc_steps + 1
             /\ Len(history'.samples) = Len(history.samples) + 1]_vars
  /\ []((enabled_ /\ status = "running" /\ history.dipole_evals >= 1) =>
          LET samples == history.samples
              last == samples[Len(samples)]
          IN  /\ Len(samples) = history.osc_steps + 1
              /\ prevtime = last.time
              /\ prevdipole = last.dipole
              /\ cos_integral =
                   C15_Accumulated("cos", cavity_frequency, coupling_strength, samples)
              /\ sin_integral =
                   C15_Accumulated("sin", cavity_frequency, coupling_strength, samples))

\* two steps have been integrated, the second with another dipole than the first
C15_Witness ==
  /\ enabled_ /\ status = "running" /\ pc = "md"
  /\ history.osc_steps = 2
  /\ history.samples[2].dipole # history.samples[3].dipole
  /\ RLess(history.samples[2].time, history.samples[3].time)
  /\ IsFinite(sin_integral) /\ sin_integral # R(0)

\* C16: while the subsystem is not enabled (parse was never called, or finalize
\* has run), each of initialize, compute_dipole_and_jacobian,
\* compute_and_apply_cavity_force, update_cavity, write and finalize changes
\* nothing: no member of Cavity, no force of the outer atoms, no row, no file
\* handle; a finalize after a finalize leaves the two streams as they are.
C16_DisabledHooksDoNothing ==
  [][(/\ ~enabled_
      /\ \/ pc \in {"initialize", "dipole", "force", "update", "write"}
         \/ pc = "md" /\ pc' = "input") =>
       /\ UNCHANGED <<paramVars, massVars, dipoleVars, cpu_cavity_force_, oscVars,
                      snapVars, fileVars>>
       /\ atom' = atom
       /\ history'.dipole_evals = history.dipole_evals
       /\ history'.osc_steps = history.osc_steps]_vars

\* a run with the keyword was finalized, and a later run without it has gone
\* through all its hooks and its own finalize
C16_Witness ==
  /\ ~enabled_ /\ ~history.keyword /\ run = 2
  /\ pc = "input" /\ step >= 1
  /\ jacfile_ = "closed" /\ cavfile_ = "closed"
  /\ Len(cavity_out.disk) = history.cav_rows

\* parse was never called, and a run has gone through all its hooks and finalize
C16_WitnessNeverEnabled ==
  /\ ~enabled_ /\ ~history.keyword /\ run = 1
  /\ pc = "input" /\ step >= 1
  /\ jacfile_ = "null" /\ cavfile_ = "null"

\* C17: after initialize, slot r*N + a of the batched snapshot holds the type
\* and the mass of atom a, for every replica r in [0, 12*N) and atom a in
\* [0, N): all 12*N*N slots carry the species of the atom they replicate.
C17_ReplicasCarrySpecies ==
  (enabled_ /\ status = "running" /\ history.dipole_evals >= 1) =>
    LET N == number_of_atoms_
    IN  \A r \in 0..(12 * N - 1), a \in 0..(N - 1) :
          /\ atom_cavity.mass[r * N + a] = atom.mass[a]
          /\ atom_cavity.type[r * N + a] = atom.type[a]

=============================================================================
